---- MODULE Spec2Model ----
(***************************************************************************)
(* State-machine model of the AudioContext Speaker of the Feed.fm          *)
(* Javascript SDK (src/src/audioContextSpeaker.js, lines 901-1875) and of  *)
(* the Sound handle it issues (src/unnamed/part_002).                      *)
(*                                                                         *)
(* The Speaker is single threaded: every action below is one run to        *)
(* completion of a public call, of a promise continuation or of a platform *)
(* notification.  The platform (fetch, decodeAudioData, AudioContext       *)
(* resume/suspend, interval timers) is the environment: a promise it       *)
(* returns stays in `pending` until it is resolved or rejected.            *)
(***************************************************************************)
EXTENDS Integers, Sequences, FiniteSets, Bags, TLC

(* ------------------------------ bounds -------------------------------- *)
MaxSounds == 2      \* Sounds create() may issue
MaxPending == 2     \* promises outstanding at once
MaxTime == 1        \* last value of the audio context's clock, seconds
MaxCalls == 5       \* calls the client makes on the Speaker and its Sounds

(* --------------------------- program constants ------------------------ *)
SILENCE == "silence"
DEFAULT_VOLUME == <<1, 1>>
MsPerSecond == 1000
SafeToPreload == 20     \* seconds of the active track after which the Howler Speaker prepares

(* ------------------------- environment parameters --------------------- *)
NULL == 0                       \* null / undefined object reference
NoUrl == "null"                 \* prepareWhenReady: null
Urls == {"a", "b"}              \* media the caller asks for
TrackSeconds == MaxTime + 1     \* buffer.duration of every decoded track

NoOptions ==
  [startPosition |-> 0, endPosition |-> 0, fadeInSeconds |-> 0,
   fadeOutSeconds |-> 0, gain |-> 0]

\* what the caller passes to create(): a track with a fade-out, a track
\* with a fade-out and an end position
TrackA == <<"a", [NoOptions EXCEPT !.fadeOutSeconds = 1]>>
TrackB == <<"b", [NoOptions EXCEPT !.fadeOutSeconds = 1,
                                   !.endPosition = MaxTime * MsPerSecond]>>
Tracks == {TrackA, TrackB}

SoundIds == 1..MaxSounds

VARIABLES
  active, fading, preparing,   \* Speaker.active/fading/preparing: slot id or NULL
  slots,                       \* the audio groups (soundSource + AudioPlayer) by id
  prepareWhenReady,            \* Speaker.prepareWhenReady
  vol,                         \* Speaker.vol
  outstandingSounds,           \* Speaker.outstandingSounds (ids)
  sounds,                      \* the Sound objects by id
  handlers,                    \* Sounds whose event handlers are still attached
  pending,                     \* bag of unsettled promises
  hist,                        \* per Sound: what its subscriber has observed
  destroyed,                   \* Sounds on which destroy() has been called
  failed,                      \* Sounds whose media failed after play(), before any event
  now,                         \* audioContext.currentTime, seconds
  latest,                      \* the audio whose handlers audioContext.onstatechange calls
  calls                        \* number of calls the client has made

vars == <<active, fading, preparing, slots, prepareWhenReady, vol,
          outstandingSounds, sounds, handlers, pending, hist, destroyed, failed,
          now, latest, calls>>

(* The Speaker and its Sounds as one value, so that a handler is a         *)
(* function from state to state and handlers compose as in the source.     *)
(* `emitted` lists the events the handler has delivered so far.            *)
(* `notified` lists the events the handler has triggered on the Speaker.   *)
Cur ==
  [active |-> active, fading |-> fading, preparing |-> preparing,
   slots |-> slots, prepareWhenReady |-> prepareWhenReady, vol |-> vol,
   outstandingSounds |-> outstandingSounds, sounds |-> sounds,
   handlers |-> handlers, pending |-> pending, hist |-> hist,
   destroyed |-> destroyed, failed |-> failed, now |-> now, latest |-> latest,
   emitted |-> <<>>, notified |-> <<>>]

(* ------------------------------ rationals ------------------------------ *)
RECURSIVE GCD(_, _)
GCD(a, b) == IF b = 0 THEN a ELSE GCD(b, a % b)

Abs(x) == IF x < 0 THEN -x ELSE x

\* the fraction n/d (d # 0) in lowest terms with a positive denominator
Frac(n, d) ==
  LET g == GCD(Abs(n), Abs(d))
      sg == IF d < 0 THEN -1 ELSE 1
  IN  IF n = 0 THEN <<0, 1>> ELSE <<(sg * n) \div g, (sg * d) \div g>>

FracMul(x, y) == Frac(x[1] * y[1], x[2] * y[2])
FracLeq(x, y) == x[1] * y[2] <= y[1] * x[2]

(* ------------------------------- Sound --------------------------------- *)
\* a constructor that ends the fade-out of a Sound without end position
\* fadeOutSeconds after the start of the media
Sound_earlyFade(options, url) ==
  LET fis == IF options.fadeInSeconds # 0
             THEN (IF options.startPosition # 0
                   THEN options.startPosition \div MsPerSecond ELSE 0)
             ELSE 0
      fie == IF options.fadeInSeconds # 0 THEN fis + options.fadeInSeconds ELSE 0
      withEnd == options.fadeOutSeconds # 0 /\ options.endPosition # 0
  IN  [url |-> url,
       startPosition |-> options.startPosition,
       endPosition |-> options.endPosition,
       fadeInSeconds |-> options.fadeInSeconds,
       fadeInStart |-> fis,
       fadeInEnd |-> fie,
       fadeOutSeconds |-> options.fadeOutSeconds,
       fadeOutStart |-> IF withEnd
                        THEN options.endPosition \div MsPerSecond - options.fadeOutSeconds
                        ELSE 0,
       fadeOutEnd |-> IF withEnd THEN options.endPosition \div MsPerSecond
                      ELSE options.fadeOutSeconds,
       gain |-> options.gain]

\* new Sound(speaker, options, id, url)
Sound(options, url) ==
  LET fis == IF options.fadeInSeconds # 0
             THEN (IF options.startPosition # 0
                   THEN options.startPosition \div MsPerSecond ELSE 0)
             ELSE 0
      fie == IF options.fadeInSeconds # 0 THEN fis + options.fadeInSeconds ELSE 0
      withEnd == options.fadeOutSeconds # 0 /\ options.endPosition # 0
  IN  [url |-> url,
       startPosition |-> options.startPosition,
       endPosition |-> options.endPosition,
       fadeInSeconds |-> options.fadeInSeconds,
       fadeInStart |-> fis,
       fadeInEnd |-> fie,
       fadeOutSeconds |-> options.fadeOutSeconds,
       fadeOutStart |-> IF withEnd
                        THEN options.endPosition \div MsPerSecond - options.fadeOutSeconds
                        ELSE 0,
       fadeOutEnd |-> IF withEnd THEN options.endPosition \div MsPerSecond ELSE 0,
       gain |-> options.gain]

\* options.gain of the Sounds of the model, dB: multiples of 20, for which
\* Math.pow(10, gain / 20) is a whole power of 10
Gains == {-20, 0, 20, 40}

\* the master volumes
AllVolumes == 0..100

\* Math.pow(10, n) for a whole n, as a fraction
Pow10(n) == IF n >= 0 THEN <<10 ^ n, 1>> ELSE <<1, 10 ^ (-n)>>

\* (volume / 100) * (50 * Math.pow(10, gain / 20)), numerator and denominator
Gained(gain, volume) ==
  LET p == Pow10(gain \div 20)
  IN  <<volume * 50 * p[1], 100 * p[2]>>

\* Math.max(Math.min(x, 100), 0)
Clamped(x) ==
  LET min == IF x[1] > 100 * x[2] THEN <<100, 1>> ELSE x
  IN  IF min[1] < 0 THEN <<0, 1>> ELSE min

\* the two branches of gainAdjustedVolume without Math.min and Math.max, for
\* every gain and master volume
Unclamped ==
  [gain \in Gains, volume \in AllVolumes |->
     IF gain = 0
     THEN Frac(volume, 100)
     ELSE LET x == Gained(gain, volume) IN Frac(x[1], x[2] * 100)]

\* the two branches of gainAdjustedVolume for every gain and master volume
Adjusted ==
  [gain \in Gains, volume \in AllVolumes |->
     IF gain = 0
     THEN Frac(volume, 100)
     ELSE LET x == Clamped(Gained(gain, volume)) IN Frac(x[1], x[2] * 100)]

\* gainAdjustedVolume without Math.min and Math.max
gainAdjustedVolume_unclamped(sound, volume) == Unclamped[sound.gain, volume]

\* Sound.prototype.gainAdjustedVolume
gainAdjustedVolume(sound, volume) == Adjusted[sound.gain, volume]

(* ------------------------ what a subscriber saw ------------------------ *)
NoHistory == [phase |-> "created", played |-> FALSE, finish |-> "none", bad |-> {}]

\* the subscriber's record after one more event: its position in
\* play (pause | play)* finish, and how the events that did not fit went wrong
Observe(h, ev, err, gone) ==
  LET late == IF gone THEN {"afterDestroy"} ELSE {}
      over == h.phase = "finished"
      new == h.phase = "created"
  IN  CASE ev = "play" ->
             [h EXCEPT !.phase = IF over THEN @ ELSE "playing",
                       !.played = TRUE,
                       !.bad = @ \cup late \cup (IF over THEN {"order"} ELSE {})]
        [] ev = "pause" ->
             [h EXCEPT !.phase = IF over \/ new THEN @ ELSE "paused",
                       !.bad = @ \cup late \cup (IF over \/ new THEN {"order"} ELSE {})]
        [] ev = "finish" ->
             [h EXCEPT !.phase = "finished",
                       !.finish = IF over THEN @ ELSE IF err THEN "error" ELSE "ok",
                       !.bad = @ \cup late \cup (IF over THEN {"refinish"} ELSE {})]
        [] OTHER ->
             [h EXCEPT !.bad = @ \cup late \cup (IF over \/ new THEN {"elapse"} ELSE {})]

\* Events.trigger on a Sound: delivered to the handlers still attached
trigger(sp, s, ev, err) ==
  IF s \in sp.handlers
  THEN [sp EXCEPT !.hist[s] = Observe(@, ev, err, s \in sp.destroyed),
                  !.emitted = Append(@, <<s, ev, err>>)]
  ELSE sp

\* Events.off() on a Sound: detaches every handler
off(sp, s) == [sp EXCEPT !.handlers = @ \ {s}]

(* ----------------------------- AudioPlayer ----------------------------- *)
\* the audio group _createAudioPlayer resolves with: the soundSource, its
\* AudioPlayer and the state of that player's interval timer
NewPlayer(url, t) ==
  [src |-> url, paused |-> TRUE, sound |-> NULL, volume |-> DEFAULT_VOLUME,
   pauseAfterPlay |-> FALSE, currentTime |-> t,
   duration |-> IF url = SILENCE THEN 0 ELSE TrackSeconds, leaked |-> FALSE]

\* AudioPlayer.play(): the caller keeps the promise it returns.  pollTime()
\* overwrites this.interval, so a timer still running can no longer be
\* cleared (leaked); the timer of this.interval runs exactly while ~paused.
AudioPlayerPlay(sp, a) ==
  [sp EXCEPT !.slots[a].paused = FALSE,
             !.slots[a].leaked = @ \/ ~sp.slots[a].paused]

\* AudioPlayer.pause(): clearInterval(this.interval)
AudioPlayerPause(sp, a) == [sp EXCEPT !.slots[a].paused = TRUE]

\* an unsettled promise and what its continuations captured; `pre` is the
\* Sound to which the assemblePlay that made the promise delivered finish
Promise(kind, slot, sound, url) ==
  [kind |-> kind, slot |-> slot, sound |-> sound, url |-> url, pre |-> NULL]

Await(sp, p) == [sp EXCEPT !.pending = @ (+) SetToBag({p})]
Settle(sp, p) == [sp EXCEPT !.pending = @ (-) SetToBag({p})]

(* ------------------------------- Speaker ------------------------------- *)
\* _setVolume whose fade-out ramp runs from 0 up to the base volume
_setVolume_rising(sp, a, sound) ==
  LET s == IF sound = NULL THEN sp.slots[a].sound ELSE sound
      snd == sp.sounds[s]
      t == sp.slots[a].currentTime
      base == gainAdjustedVolume(snd, sp.vol)
      calculatedVolume ==
        IF snd.fadeInStart # snd.fadeInEnd /\ t < snd.fadeInStart
        THEN <<0, 1>>
        ELSE IF snd.fadeInStart # snd.fadeInEnd
                /\ t >= snd.fadeInStart /\ t <= snd.fadeInEnd
        THEN FracMul(Frac(t - snd.fadeInStart, snd.fadeInEnd - snd.fadeInStart), base)
        ELSE IF snd.fadeOutStart # snd.fadeOutEnd /\ t > snd.fadeOutEnd
        THEN <<0, 1>>
        ELSE IF snd.fadeOutStart # snd.fadeOutEnd
                /\ t >= snd.fadeOutStart /\ t <= snd.fadeOutEnd
        THEN FracMul(Frac(t - snd.fadeOutStart,
                          snd.fadeOutEnd - snd.fadeOutStart), base)
        ELSE base
  IN  [sp EXCEPT !.slots[a].volume = calculatedVolume]

\* _setVolume whose fade-in ramp excludes the start of the window
_setVolume_openRamp(sp, a, sound) ==
  LET s == IF sound = NULL THEN sp.slots[a].sound ELSE sound
      snd == sp.sounds[s]
      t == sp.slots[a].currentTime
      base == gainAdjustedVolume(snd, sp.vol)
      calculatedVolume ==
        IF snd.fadeInStart # snd.fadeInEnd /\ t < snd.fadeInStart
        THEN <<0, 1>>
        ELSE IF snd.fadeInStart # snd.fadeInEnd
                /\ t > snd.fadeInStart /\ t <= snd.fadeInEnd
        THEN FracMul(Frac(t - snd.fadeInStart, snd.fadeInEnd - snd.fadeInStart), base)
        ELSE IF snd.fadeOutStart # snd.fadeOutEnd /\ t > snd.fadeOutEnd
        THEN <<0, 1>>
        ELSE IF snd.fadeOutStart # snd.fadeOutEnd
                /\ t >= snd.fadeOutStart /\ t <= snd.fadeOutEnd
        THEN FracMul(Frac((snd.fadeOutEnd - snd.fadeOutStart) - (t - snd.fadeOutStart),
                          snd.fadeOutEnd - snd.fadeOutStart), base)
        ELSE base
  IN  [sp EXCEPT !.slots[a].volume = calculatedVolume]

\* _setVolume that tests the fade-out window before the fade-in window
_setVolume_fadeOutFirst(sp, a, sound) ==
  LET s == IF sound = NULL THEN sp.slots[a].sound ELSE sound
      snd == sp.sounds[s]
      t == sp.slots[a].currentTime
      base == gainAdjustedVolume(snd, sp.vol)
      calculatedVolume ==
        IF snd.fadeOutStart # snd.fadeOutEnd /\ t > snd.fadeOutEnd
        THEN <<0, 1>>
        ELSE IF snd.fadeOutStart # snd.fadeOutEnd
                /\ t >= snd.fadeOutStart /\ t <= snd.fadeOutEnd
        THEN FracMul(Frac((snd.fadeOutEnd - snd.fadeOutStart) - (t - snd.fadeOutStart),
                          snd.fadeOutEnd - snd.fadeOutStart), base)
        ELSE IF snd.fadeInStart # snd.fadeInEnd /\ t < snd.fadeInStart
        THEN <<0, 1>>
        ELSE IF snd.fadeInStart # snd.fadeInEnd
                /\ t >= snd.fadeInStart /\ t <= snd.fadeInEnd
        THEN FracMul(Frac(t - snd.fadeInStart, snd.fadeInEnd - snd.fadeInStart), base)
        ELSE base
  IN  [sp EXCEPT !.slots[a].volume = calculatedVolume]

\* Speaker.prototype._setVolume(audioGroup, sound)
_setVolume(sp, a, sound) ==
  LET s == IF sound = NULL THEN sp.slots[a].sound ELSE sound
      snd == sp.sounds[s]
      t == sp.slots[a].currentTime
      base == gainAdjustedVolume(snd, sp.vol)
      calculatedVolume ==
        IF snd.fadeInStart # snd.fadeInEnd /\ t < snd.fadeInStart
        THEN <<0, 1>>
        ELSE IF snd.fadeInStart # snd.fadeInEnd
                /\ t >= snd.fadeInStart /\ t <= snd.fadeInEnd
        THEN FracMul(Frac(t - snd.fadeInStart, snd.fadeInEnd - snd.fadeInStart), base)
        ELSE IF snd.fadeOutStart # snd.fadeOutEnd /\ t > snd.fadeOutEnd
        THEN <<0, 1>>
        ELSE IF snd.fadeOutStart # snd.fadeOutEnd
                /\ t >= snd.fadeOutStart /\ t <= snd.fadeOutEnd
        THEN FracMul(Frac((snd.fadeOutEnd - snd.fadeOutStart) - (t - snd.fadeOutStart),
                          snd.fadeOutEnd - snd.fadeOutStart), base)
        ELSE base
  IN  [sp EXCEPT !.slots[a].volume = calculatedVolume]

\* Speaker.prototype._prepare(url, startPosition); `next` is the Sound whose
\* assemblePlay waits on the returned promise (NULL: nobody waits)
_prepare(sp, url, startPosition, next) ==
  LET sp1 == [sp EXCEPT !.prepareWhenReady = NoUrl]
      p == sp1.preparing
  IN  IF sp1.slots[p].src # url
      THEN Await(sp1, Promise("prepare", NULL, next, url))
      ELSE IF startPosition # 0 /\ sp1.slots[p].currentTime # startPosition
      THEN [sp1 EXCEPT !.slots[p].currentTime = startPosition \div MsPerSecond]
      ELSE sp1

\* prepare that also prepares once the active audio is past SafeToPreload,
\* as the Speaker built on Howler does
prepare_whenSafe(sp, url) ==
  IF sp.active = NULL
  THEN [sp EXCEPT !.prepareWhenReady = url]
  ELSE IF sp.slots[sp.active].currentTime > SafeToPreload
  THEN _prepare(sp, url, 0, NULL)
  ELSE IF sp.slots[sp.active].src = SILENCE
  THEN _prepare(sp, url, 0, NULL)
  ELSE [sp EXCEPT !.prepareWhenReady = url]

\* Speaker.prototype.prepare(url)
prepare(sp, url) ==
  IF sp.active = NULL
  THEN [sp EXCEPT !.prepareWhenReady = url]
  ELSE IF sp.slots[sp.active].src = SILENCE
  THEN _prepare(sp, url, 0, NULL)
  ELSE [sp EXCEPT !.prepareWhenReady = url]

\* create that does not enter the Sound in outstandingSounds
create_unregistered(sp, url, options) ==
  LET id == Cardinality(DOMAIN sp.sounds) + 1
      sound == Sound(options, url)
      sp1 == [sp EXCEPT !.sounds = [i \in DOMAIN sp.sounds \cup {id} |->
                                      IF i = id THEN sound ELSE sp.sounds[i]],
                        !.hist = [i \in DOMAIN sp.sounds \cup {id} |->
                                      IF i = id THEN NoHistory ELSE sp.hist[i]],
                        !.handlers = @ \cup {id}]
  IN  IF sp1.active = NULL
      THEN [sp1 EXCEPT !.prepareWhenReady = sound.url]
      ELSE IF sp1.slots[sp1.preparing].src = SILENCE
      THEN _prepare(sp1, sound.url, sound.startPosition, NULL)
      ELSE sp1

\* create that drops the url when no audio exists yet
create_forgetful(sp, url, options) ==
  LET id == Cardinality(DOMAIN sp.sounds) + 1
      sound == Sound(options, url)
      sp1 == [sp EXCEPT !.sounds = [i \in DOMAIN sp.sounds \cup {id} |->
                                      IF i = id THEN sound ELSE sp.sounds[i]],
                        !.hist = [i \in DOMAIN sp.sounds \cup {id} |->
                                      IF i = id THEN NoHistory ELSE sp.hist[i]],
                        !.handlers = @ \cup {id},
                        !.outstandingSounds = @ \cup {id}]
  IN  IF sp1.active = NULL
      THEN sp1
      ELSE IF sp1.slots[sp1.preparing].src = SILENCE
      THEN _prepare(sp1, sound.url, sound.startPosition, NULL)
      ELSE sp1

\* create that records the url whenever it cannot prepare it at once
create_recording(sp, url, options) ==
  LET id == Cardinality(DOMAIN sp.sounds) + 1
      sound == Sound(options, url)
      sp1 == [sp EXCEPT !.sounds = [i \in DOMAIN sp.sounds \cup {id} |->
                                      IF i = id THEN sound ELSE sp.sounds[i]],
                        !.hist = [i \in DOMAIN sp.sounds \cup {id} |->
                                      IF i = id THEN NoHistory ELSE sp.hist[i]],
                        !.handlers = @ \cup {id},
                        !.outstandingSounds = @ \cup {id}]
  IN  IF sp1.active = NULL
      THEN [sp1 EXCEPT !.prepareWhenReady = sound.url]
      ELSE IF sp1.slots[sp1.preparing].src = SILENCE
      THEN _prepare(sp1, sound.url, sound.startPosition, NULL)
      ELSE [sp1 EXCEPT !.prepareWhenReady = sound.url]

\* Speaker.prototype.create(url, optionsAndCallbacks)
create(sp, url, options) ==
  LET id == Cardinality(DOMAIN sp.sounds) + 1
      sound == Sound(options, url)
      sp1 == [sp EXCEPT !.sounds = [i \in DOMAIN sp.sounds \cup {id} |->
                                      IF i = id THEN sound ELSE sp.sounds[i]],
                        !.hist = [i \in DOMAIN sp.sounds \cup {id} |->
                                      IF i = id THEN NoHistory ELSE sp.hist[i]],
                        !.handlers = @ \cup {id},
                        !.outstandingSounds = @ \cup {id}]
  IN  IF sp1.active = NULL
      THEN [sp1 EXCEPT !.prepareWhenReady = sound.url]
      ELSE IF sp1.slots[sp1.preparing].src = SILENCE
      THEN _prepare(sp1, sound.url, sound.startPosition, NULL)
      ELSE sp1


\* assemblePlay that silences the pre-empted slot without a finish
assemblePlay_quiet(sp, s) ==
  LET sp1 == [sp EXCEPT !.active = sp.preparing, !.preparing = sp.active]
      sp2 == [sp1 EXCEPT !.slots[sp1.active].sound = NULL]
      sp3 == _setVolume(sp2, sp2.active, s)
      finishedSound == sp3.slots[sp3.preparing].sound
      sp4 == IF finishedSound # NULL
             THEN [sp3 EXCEPT !.slots[sp3.preparing].src = SILENCE,
                              !.slots[sp3.preparing].sound = NULL]
             ELSE sp3
      me == sp4.active
  IN  Await(AudioPlayerPlay(sp4, me),
            [Promise("play", me, s, NoUrl) EXCEPT
               !.pre = IF finishedSound \in sp3.handlers THEN finishedSound ELSE NULL])

\* the swap, the pre-emption and the start of _playSound's assemblePlay
assemblePlay(sp, s) ==
  LET sp1 == [sp EXCEPT !.active = sp.preparing, !.preparing = sp.active]
      sp2 == [sp1 EXCEPT !.slots[sp1.active].sound = NULL]
      sp3 == _setVolume(sp2, sp2.active, s)
      finishedSound == sp3.slots[sp3.preparing].sound
      sp4 == IF finishedSound # NULL
             THEN trigger([sp3 EXCEPT !.slots[sp3.preparing].src = SILENCE,
                                      !.slots[sp3.preparing].sound = NULL],
                          finishedSound, "finish", FALSE)
             ELSE sp3
      me == sp4.active
  IN  Await(AudioPlayerPlay(sp4, me),
            [Promise("play", me, s, NoUrl) EXCEPT
               !.pre = IF finishedSound \in sp3.handlers THEN finishedSound ELSE NULL])

\* _playSound that resumes the active audio and leaves the fading one paused
_playSound_alone(sp, s) ==
  IF sp.active = NULL
  THEN sp
  ELSE IF sp.slots[sp.active].sound = s
  THEN IF sp.slots[sp.active].paused
       THEN Await(AudioPlayerPlay(sp, sp.active),
                  Promise("resume", NULL, s, NoUrl))
       ELSE sp
  ELSE IF sp.slots[sp.preparing].src # sp.sounds[s].url
  THEN _prepare(sp, sp.sounds[s].url, sp.sounds[s].startPosition, s)
  ELSE assemblePlay(sp, s)

\* Speaker.prototype._playSound(sound)
_playSound(sp, s) ==
  IF sp.active = NULL
  THEN sp
  ELSE IF sp.slots[sp.active].sound = s
  THEN IF sp.slots[sp.active].paused
       THEN LET sp1 == Await(AudioPlayerPlay(sp, sp.active),
                             Promise("resume", NULL, s, NoUrl))
            IN  IF sp1.slots[sp1.fading].sound # NULL
                THEN Await(AudioPlayerPlay(sp1, sp1.fading),
                           Promise("fadingResume", NULL, NULL, NoUrl))
                ELSE sp1
       ELSE sp
  ELSE IF sp.slots[sp.preparing].src # sp.sounds[s].url
  THEN _prepare(sp, sp.sounds[s].url, sp.sounds[s].startPosition, s)
  ELSE assemblePlay(sp, s)

\* the .then of the start that does not look the Sound up in the registry
playThen_unchecked(sp, me, s) ==
  LET snd == sp.sounds[s]
      sp1 == [sp EXCEPT !.slots[me].sound = s]
      sp2 == IF snd.fadeOutSeconds # 0 /\ snd.fadeOutEnd = 0
             THEN [sp1 EXCEPT
                     !.sounds[s].fadeOutStart = sp1.slots[me].duration - snd.fadeOutSeconds,
                     !.sounds[s].fadeOutEnd = sp1.slots[me].duration]
             ELSE sp1
      paused == sp2.slots[me].paused
      sp4 == trigger(sp2, s, "play", FALSE)
  IN  IF sp4.slots[me].pauseAfterPlay
      THEN AudioPlayerPause(sp4, me)
      ELSE IF paused
      THEN trigger(sp4, s, "pause", FALSE)
      ELSE sp4

\* the .then of the start that configures the fade-out at every start
playThen_refading(sp, me, s) ==
  IF s \notin sp.outstandingSounds
  THEN IF sp.slots[me].src = sp.sounds[s].url
       THEN [AudioPlayerPause(sp, me) EXCEPT !.slots[me].src = SILENCE]
       ELSE sp
  ELSE LET snd == sp.sounds[s]
           sp1 == [sp EXCEPT !.slots[me].sound = s]
           sp2 == IF snd.fadeOutSeconds # 0
                  THEN [sp1 EXCEPT
                          !.sounds[s].fadeOutStart = sp1.slots[me].duration - snd.fadeOutSeconds,
                          !.sounds[s].fadeOutEnd = sp1.slots[me].duration]
                  ELSE sp1
           sp3 == IF snd.startPosition # 0
                  THEN [sp2 EXCEPT !.slots[me].currentTime = snd.startPosition \div MsPerSecond]
                  ELSE sp2
           paused == sp3.slots[me].paused
           sp4 == trigger(sp3, s, "play", FALSE)
       IN  IF sp4.slots[me].pauseAfterPlay
           THEN AudioPlayerPause(sp4, me)
           ELSE IF paused
           THEN trigger(sp4, s, "pause", FALSE)
           ELSE sp4

\* assemblePlay: the .then of this.active.audio.play()
playThen(sp, me, s) ==
  IF s \notin sp.outstandingSounds
  THEN IF sp.slots[me].src = sp.sounds[s].url
       THEN [AudioPlayerPause(sp, me) EXCEPT !.slots[me].src = SILENCE]
       ELSE sp
  ELSE LET snd == sp.sounds[s]
           sp1 == [sp EXCEPT !.slots[me].sound = s]
           sp2 == IF snd.fadeOutSeconds # 0 /\ snd.fadeOutEnd = 0
                  THEN [sp1 EXCEPT
                          !.sounds[s].fadeOutStart = sp1.slots[me].duration - snd.fadeOutSeconds,
                          !.sounds[s].fadeOutEnd = sp1.slots[me].duration]
                  ELSE sp1
           sp3 == IF snd.startPosition # 0
                  THEN [sp2 EXCEPT !.slots[me].currentTime = snd.startPosition \div MsPerSecond]
                  ELSE sp2
           paused == sp3.slots[me].paused
           sp4 == trigger(sp3, s, "play", FALSE)
       IN  IF sp4.slots[me].pauseAfterPlay
           THEN AudioPlayerPause(sp4, me)
           ELSE IF paused
           THEN trigger(sp4, s, "pause", FALSE)
           ELSE sp4

\* the media of s failed after play(): remembered when s is subscribed and
\* has seen no event yet
Fail(sp, s) ==
  IF s \in sp.handlers /\ sp.hist[s].phase = "created"
  THEN [sp EXCEPT !.failed = @ \cup {s}]
  ELSE sp

\* a .catch of the start that also unloads the audio it was started on
playCatch_unloading(sp, s) ==
  trigger([Fail(sp, s) EXCEPT !.slots[sp.active].src = SILENCE], s, "finish", TRUE)

\* assemblePlay: the .catch of this.active.audio.play()
playCatch(sp, s) == trigger(Fail(sp, s), s, "finish", TRUE)

\* _playSound: this._prepare(...).then(...) has no .catch, the rejection of
\* _createAudioPlayer(url) is not handled
prepareCatch(sp, next) == IF next # NULL THEN Fail(sp, next) ELSE sp

\* _playSound, resume branch: the .then of this.active.audio.play()
resumeThen(sp, s) == trigger(sp, s, "play", FALSE)

\* _playSound, resume branch: the .catch of this.active.audio.play()
resumeCatch(sp, s) ==
  trigger([sp EXCEPT !.slots[sp.active].sound = NULL], s, "finish", FALSE)

\* _playSound, resume branch: the .catch of this.fading.audio.play()
fadingResumeCatch(sp) ==
  [sp EXCEPT !.slots[sp.fading].sound = NULL, !.slots[sp.fading].src = SILENCE]

\* _destroySound that leaves the handlers of the Sound attached
_destroySound_keepsHandlers(sp, s) ==
  LET sp2 == IF sp.active # NULL /\ sp.slots[sp.active].sound = s
             THEN AudioPlayerPause(sp, sp.active)
             ELSE sp
  IN  [sp2 EXCEPT !.outstandingSounds = @ \ {s}]

\* _destroySound that pauses the active audio whatever Sound is destroyed
_destroySound_pausing(sp, s) ==
  LET sp1 == off(sp, s)
      sp2 == IF sp1.active # NULL
             THEN AudioPlayerPause(sp1, sp1.active)
             ELSE sp1
  IN  [sp2 EXCEPT !.outstandingSounds = @ \ {s}]

\* Speaker.prototype._destroySound(sound)
_destroySound(sp, s) ==
  LET sp1 == off(sp, s)
      sp2 == IF sp1.active # NULL /\ sp1.slots[sp1.active].sound = s
             THEN AudioPlayerPause(sp1, sp1.active)
             ELSE sp1
  IN  [sp2 EXCEPT !.outstandingSounds = @ \ {s}]

\* Sound.prototype.destroy()
destroy(sp, s) == _destroySound([sp EXCEPT !.destroyed = @ \cup {s}], s)

\* Speaker.prototype.flush(): destroy() on every key of outstandingSounds
RECURSIVE flushFrom(_, _)
flushFrom(sp, ids) ==
  IF ids = {}
  THEN sp
  ELSE LET id == CHOOSE i \in ids : \A j \in ids : i <= j
       IN  flushFrom(destroy(sp, id), ids \ {id})

\* flush that stops after the first Sound
flush_first(sp) ==
  IF sp.outstandingSounds = {}
  THEN sp
  ELSE destroy(sp, CHOOSE i \in sp.outstandingSounds :
                     \A j \in sp.outstandingSounds : i <= j)

flush(sp) == flushFrom(sp, sp.outstandingSounds)

\* Speaker.prototype._pauseSound(sound)
_pauseSound(sp, s) ==
  LET sp1 == IF sp.active # NULL /\ sp.sounds[s].url = sp.slots[sp.active].src
             THEN IF sp.slots[sp.active].sound = s
                  THEN AudioPlayerPause(sp, sp.active)
                  ELSE [sp EXCEPT !.slots[sp.active].pauseAfterPlay = TRUE]
             ELSE sp
  IN  IF sp1.fading # NULL THEN AudioPlayerPause(sp1, sp1.fading) ELSE sp1

\* Events.trigger on the Speaker
notify(sp, ev, value) == [sp EXCEPT !.notified = Append(@, <<ev, value>>)]

\* the value of a missing argument
Undefined == -1

\* setVolume that tests the value for truth rather than for undefined
setVolume_truthy(sp, value) ==
  IF value = Undefined
  THEN sp
  ELSE LET sp1 == IF value # 0 THEN [sp EXCEPT !.vol = value] ELSE sp
           sp2 == IF sp1.active # NULL /\ sp1.slots[sp1.active].sound # NULL
                  THEN _setVolume(sp1, sp1.active, NULL)
                  ELSE sp1
       IN  notify(sp2, "volume", value)

\* setVolume that does not trigger the volume event
setVolume_quiet(sp, value) ==
  IF value = Undefined
  THEN sp
  ELSE LET sp1 == [sp EXCEPT !.vol = value]
       IN  IF sp1.active # NULL /\ sp1.slots[sp1.active].sound # NULL
           THEN _setVolume(sp1, sp1.active, NULL)
           ELSE sp1

\* Speaker.prototype.setVolume(value)
setVolume(sp, value) ==
  IF value = Undefined
  THEN sp
  ELSE LET sp1 == [sp EXCEPT !.vol = value]
           sp2 == IF sp1.active # NULL /\ sp1.slots[sp1.active].sound # NULL
                  THEN _setVolume(sp1, sp1.active, NULL)
                  ELSE sp1
       IN  notify(sp2, "volume", value)

\* Speaker.prototype.getVolume()
getVolume(sp) == sp.vol

\* how a read ends: the state it leaves, and the value it returns or the
\* TypeError it throws on dereferencing null
Returns(sp, v) == [state |-> sp, threw |-> FALSE, result |-> v]
TypeError(sp) == [state |-> sp, threw |-> TRUE, result |-> 0]

\* Speaker.prototype._position(sound)
_position(sp, s) ==
  IF sp.active # NULL /\ sp.slots[sp.active].sound = s
  THEN Returns(sp, sp.slots[sp.active].currentTime * MsPerSecond)
  ELSE Returns(sp, 0)

\* Speaker.prototype._duration(sound): this.active.sound is read without a
\* test of this.active
_duration(sp, s) ==
  IF sp.active = NULL
  THEN TypeError(sp)
  ELSE IF sp.slots[sp.active].sound = s
  THEN Returns(sp, sp.slots[sp.active].duration * MsPerSecond)
  ELSE Returns(sp, 0)

(* ------------------------ platform notifications ----------------------- *)
\* attachEventHandlers: audioPlayer.on("closed", ...)
onClosed(sp, a) ==
  IF sp.slots[a].src = SILENCE
  THEN sp
  ELSE IF a = sp.fading
  THEN [sp EXCEPT !.slots[a].src = SILENCE, !.slots[a].sound = NULL]
  ELSE IF a # sp.active
  THEN sp
  ELSE IF sp.slots[a].sound = NULL \/ sp.sounds[sp.slots[a].sound].url # sp.slots[a].src
  THEN sp
  ELSE trigger([sp EXCEPT !.slots[a].sound = NULL], sp.slots[a].sound, "finish", FALSE)

\* attachEventHandlers: audioPlayer.on("pause", ...)
onPause(sp, a) ==
  IF sp.slots[a].src = SILENCE
  THEN sp
  ELSE IF a # sp.active \/ sp.slots[a].currentTime = sp.slots[a].duration
  THEN sp
  ELSE IF sp.slots[a].sound = NULL \/ sp.sounds[sp.slots[a].sound].url # sp.slots[a].src
  THEN sp
  ELSE trigger(sp, sp.slots[a].sound, "pause", FALSE)

\* ontimeupdate: "song reached end of play"
endOfPlay(sp, a) ==
  trigger([sp EXCEPT !.slots[a].sound = NULL, !.slots[a].src = SILENCE],
          sp.slots[a].sound, "finish", FALSE)

\* a start of fade out that pauses the audio it moves to the fading role
startOfFadeOut_pausing(sp, a) ==
  LET v == AudioPlayerPause(_setVolume(sp, a, NULL), a)
      r == [v EXCEPT !.fading = v.active, !.active = v.fading]
      u == [r EXCEPT !.slots[r.active].sound = NULL]
  IN  trigger(u, u.slots[u.fading].sound, "finish", FALSE)

\* ontimeupdate: "song hit start of fade out"
startOfFadeOut(sp, a) ==
  LET v == _setVolume(sp, a, NULL)
      r == [v EXCEPT !.fading = v.active, !.active = v.fading]
      u == [r EXCEPT !.slots[r.active].sound = NULL]
  IN  trigger(u, u.slots[u.fading].sound, "finish", FALSE)

\* the handler with the start of fade out tested before the end of play
onTimeUpdateActive_fadeFirst(sp, a) ==
  LET s == sp.slots[a].sound
      snd == sp.sounds[s]
      t == sp.slots[a].currentTime
      sp1 ==
        IF snd.fadeOutEnd # 0 /\ t >= snd.fadeOutStart
        THEN startOfFadeOut(sp, a)
        ELSE IF snd.endPosition # 0 /\ snd.endPosition <= t * MsPerSecond
        THEN endOfPlay(sp, a)
        ELSE trigger(_setVolume(sp, a, NULL), s, "elapse", FALSE)
  IN  IF sp1.prepareWhenReady # NoUrl
      THEN prepare(sp1, sp1.prepareWhenReady)
      ELSE sp1

\* the handler without the retry of prepare
onTimeUpdateActive_once(sp, a) ==
  LET s == sp.slots[a].sound
      snd == sp.sounds[s]
      t == sp.slots[a].currentTime
  IN  IF snd.endPosition # 0 /\ snd.endPosition <= t * MsPerSecond
      THEN endOfPlay(sp, a)
      ELSE IF snd.fadeOutEnd # 0 /\ t >= snd.fadeOutStart
      THEN startOfFadeOut(sp, a)
      ELSE trigger(_setVolume(sp, a, NULL), s, "elapse", FALSE)

\* attachEventHandlers: audioPlayer.on("ontimeupdate", ...), for the active
\* audio with a matching bound Sound
onTimeUpdateActive(sp, a) ==
  LET s == sp.slots[a].sound
      snd == sp.sounds[s]
      t == sp.slots[a].currentTime
      sp1 ==
        IF snd.endPosition # 0 /\ snd.endPosition <= t * MsPerSecond
        THEN endOfPlay(sp, a)
        ELSE IF snd.fadeOutEnd # 0 /\ t >= snd.fadeOutStart
        THEN startOfFadeOut(sp, a)
        ELSE trigger(_setVolume(sp, a, NULL), s, "elapse", FALSE)
  IN  IF sp1.prepareWhenReady # NoUrl
      THEN prepare(sp1, sp1.prepareWhenReady)
      ELSE sp1

\* attachEventHandlers: audioPlayer.on("ontimeupdate", ...)
onTimeUpdate(sp, a) ==
  IF sp.slots[a].src = SILENCE
  THEN sp
  ELSE IF a = sp.fading /\ sp.slots[a].sound # NULL
  THEN LET snd == sp.sounds[sp.slots[a].sound]
       IN  IF snd.endPosition # 0 /\ sp.slots[a].currentTime * MsPerSecond >= snd.endPosition
           THEN [sp EXCEPT !.slots[a].sound = NULL, !.slots[a].src = SILENCE]
           ELSE _setVolume(sp, a, NULL)
  ELSE IF a # sp.active
  THEN sp
  ELSE IF sp.slots[a].sound = NULL
  THEN sp
  ELSE IF sp.sounds[sp.slots[a].sound].url # sp.slots[a].src
  THEN sp
  ELSE onTimeUpdateActive(sp, a)

\* AudioPlayer.pollTime: the interval callback
pollTime(sp, a) == onTimeUpdate([sp EXCEPT !.slots[a].currentTime = sp.now], a)

(* ----------------------- audio groups as objects ----------------------- *)
\* an audio group is reachable from a role or from a promise that captured it
Referenced(sp, i) ==
  \/ i \in {sp.active, sp.fading, sp.preparing}
  \/ \E p \in BagToSet(sp.pending) : p.slot = i

\* _createAudioPlayer(url) resolving: the state with the new audio group,
\* whose handlers replace those of audioContext.onstatechange, and its id
Allocate(sp, url) ==
  LET id == Cardinality(DOMAIN sp.slots) + 1
  IN  <<[sp EXCEPT !.slots = [i \in DOMAIN sp.slots \cup {id} |->
                                IF i = id THEN NewPlayer(url, sp.now) ELSE sp.slots[i]],
                   !.latest = id], id>>

\* the n-th smallest element of a set of numbers
RECURSIVE Nth(_, _)
Nth(S, n) ==
  LET m == CHOOSE i \in S : \A j \in S : i <= j
  IN  IF n = 1 THEN m ELSE Nth(S \ {m}, n - 1)

\* what no handler reads of an audio group on silence is dropped: the
\* handlers of a silent player return at once, src never leaves silence
Silent(g) ==
  IF g.src = SILENCE THEN [g EXCEPT !.currentTime = 0, !.leaked = FALSE] ELSE g

\* Unreachable audio groups are forgotten, and the reachable ones are kept
\* at fixed indices: the roles at 1, 2, 3, the captured ones after them.
Collect(sp) ==
  LET roles == {sp.active, sp.fading, sp.preparing}
      loose == {p.slot : p \in BagToSet(sp.pending)} \ (roles \cup {NULL})
      from(k) == IF k = 1 THEN sp.active
                 ELSE IF k = 2 THEN sp.fading
                 ELSE IF k = 3 THEN sp.preparing
                 ELSE IF k - 3 <= Cardinality(loose) THEN Nth(loose, k - 3)
                 ELSE NULL
      at(i) == IF i = NULL THEN NULL
               ELSE IF i = sp.active THEN 1
               ELSE IF i = sp.fading THEN 2
               ELSE IF i = sp.preparing THEN 3
               ELSE 3 + Cardinality({j \in loose : j <= i})
      move(p) == [p EXCEPT !.slot = at(p.slot)]
  IN  [sp EXCEPT !.active = at(sp.active),
                 !.fading = at(sp.fading),
                 !.preparing = at(sp.preparing),
                 !.slots = [k \in 1..Cardinality((roles \cup loose) \ {NULL}) |->
                              Silent(sp.slots[from(k)])],
                 !.pending = BagOfAll(move, sp.pending),
                 !.latest = IF sp.latest \in (roles \cup loose) \ {NULL}
                               /\ sp.slots[sp.latest].src # SILENCE
                            THEN at(sp.latest) ELSE NULL,
                 !.emitted = <<>>, !.notified = <<>>]

\* initializeAudio: the .then of Promise.all, url being the media of the
\* third player and the k-th player the one decoded last
initThen(sp, url, k) ==
  LET a == Allocate(sp, SILENCE)
      a1 == [a[1] EXCEPT !.active = a[2]]
      f == Allocate(a1, SILENCE)
      f1 == [f[1] EXCEPT !.fading = f[2]]
      g == Allocate(f1, url)
  IN  [g[1] EXCEPT !.preparing = g[2], !.prepareWhenReady = NoUrl,
                   !.latest = <<a[2], f[2], g[2]>>[k]]

\* Speaker.prototype.initializeAudio()
initializeAudio(sp) ==
  IF sp.active = NULL
  THEN Await(sp, Promise("init", NULL, NULL,
                         IF sp.prepareWhenReady # NoUrl THEN sp.prepareWhenReady ELSE SILENCE))
  ELSE sp

\* a prepare that loads the media into the audio group already preparing
prepareThen_reusing(sp, url, next) ==
  LET sp1 == [sp EXCEPT !.slots[sp.preparing] = NewPlayer(url, sp.now),
                        !.latest = sp.preparing]
  IN  IF next # NULL THEN assemblePlay(sp1, next) ELSE sp1

\* _prepare: the .then of _createAudioPlayer(url), followed by the
\* assemblePlay that _playSound chained on it
prepareThen(sp, url, next) ==
  LET g == Allocate(sp, url)
      sp1 == [g[1] EXCEPT !.preparing = g[2]]
  IN  IF next # NULL THEN assemblePlay(sp1, next) ELSE sp1


(* ------------------------------- actions ------------------------------- *)
Volumes == {0, 100}                \* values passed to setVolume

\* the Speaker as constructed: no audio, no Sound
Constructed ==
  [active |-> NULL, fading |-> NULL, preparing |-> NULL,
   slots |-> [i \in {} |-> NewPlayer(SILENCE, 0)],
   prepareWhenReady |-> NoUrl, vol |-> 100,
   outstandingSounds |-> {},
   sounds |-> [i \in {} |-> Sound(NoOptions, SILENCE)],
   handlers |-> {}, pending |-> EmptyBag,
   hist |-> [i \in {} |-> NoHistory],
   destroyed |-> {}, failed |-> {}, now |-> 0, latest |-> NULL,
   emitted |-> <<>>, notified |-> <<>>]

\* the Speaker once the promise of its initializeAudio() has resolved
Ready ==
  LET sp == initializeAudio(Constructed)
      p == CHOOSE q \in BagToSet(sp.pending) : TRUE
  IN  Collect(initThen(Settle(sp, p), p.url, 1))

\* the Speaker after two create() for the media of TrackB, the first having
\* prepared it
Loaded ==
  LET sp == create(Ready, TrackB[1], TrackB[2])
      p == CHOOSE q \in BagToSet(sp.pending) : TRUE
      sp1 == prepareThen(Settle(sp, p), p.url, p.sound)
  IN  Collect(create(sp1, TrackB[1], TrackB[2]))

\* the run starts in state sp
Starts(sp) ==
  /\ active = sp.active /\ fading = sp.fading /\ preparing = sp.preparing
  /\ slots = sp.slots
  /\ prepareWhenReady = sp.prepareWhenReady
  /\ vol = sp.vol
  /\ outstandingSounds = sp.outstandingSounds
  /\ sounds = sp.sounds
  /\ handlers = sp.handlers
  /\ pending = sp.pending
  /\ hist = sp.hist
  /\ destroyed = sp.destroyed
  /\ failed = sp.failed
  /\ now = sp.now
  /\ latest = sp.latest
  /\ calls = 0

Init == Starts(Constructed)

InitLoaded == Starts(Loaded)

\* the step to state c, within the bounds
Set(c) ==
      /\ BagCardinality(c.pending) <= MaxPending
      /\ active' = c.active /\ fading' = c.fading /\ preparing' = c.preparing
      /\ slots' = c.slots
      /\ prepareWhenReady' = c.prepareWhenReady
      /\ vol' = c.vol
      /\ outstandingSounds' = c.outstandingSounds
      /\ sounds' = c.sounds
      /\ handlers' = c.handlers
      /\ pending' = c.pending
      /\ hist' = c.hist
      /\ destroyed' = c.destroyed
      /\ failed' = c.failed
      /\ now' = c.now
      /\ latest' = c.latest

\* a call of the client that changes something
Call(n) ==
  /\ calls < MaxCalls /\ calls' = calls + 1
  /\ \E c \in {Collect(n)} : c # Cur /\ Set(c)

\* a promise settling or a notification of the platform
Event(n) == calls' = calls /\ \E c \in {Collect(n)} : Set(c)

Pending(kind) == {p \in BagToSet(pending) : p.kind = kind}

\* the state once the clock of the audio context has advanced by d; the
\* clock is read by the interval callback and by new AudioPlayer(...)
Advance(d) == [Cur EXCEPT !.now = @ + d]

Delays == 0..(MaxTime - now)

InitializeAudio == Call(initializeAudio(Cur))

InitResolve ==
  \E p \in Pending("init"), k \in 1..3, d \in Delays :
    Event(initThen(Settle(Advance(d), p), p.url, k))

InitReject == \E p \in Pending("init") : Event(Settle(Cur, p))

Create ==
  /\ Cardinality(DOMAIN sounds) < MaxSounds
  /\ \E t \in Tracks : Call(create(Cur, t[1], t[2]))

Prepare == \E url \in Urls : Call(prepare(Cur, url))

\* Sound.prototype.play() and Sound.prototype.resume()
Play == \E s \in outstandingSounds : Call(_playSound(Cur, s))

\* Sound.prototype.pause()
Pause == \E s \in outstandingSounds : Call(_pauseSound(Cur, s))

Destroy == \E s \in outstandingSounds : Call(destroy(Cur, s))

Flush == outstandingSounds # {} /\ Call(flush(Cur))

SetVolume == \E v \in Volumes : Call(setVolume(Cur, v))

PrepareResolve ==
  \E p \in Pending("prepare"), d \in Delays :
    Event(prepareThen(Settle(Advance(d), p), p.url, p.sound))

PrepareReject == \E p \in Pending("prepare") : Event(prepareCatch(Settle(Cur, p), p.sound))

PlayResolve == \E p \in Pending("play") : Event(playThen(Settle(Cur, p), p.slot, p.sound))

PlayReject == \E p \in Pending("play") : Event(playCatch(Settle(Cur, p), p.sound))

ResumeResolve == \E p \in Pending("resume") : Event(resumeThen(Settle(Cur, p), p.sound))

ResumeReject == \E p \in Pending("resume") : Event(resumeCatch(Settle(Cur, p), p.sound))

FadingResumeResolve == \E p \in Pending("fadingResume") : Event(Settle(Cur, p))

FadingResumeReject == \E p \in Pending("fadingResume") : Event(fadingResumeCatch(Settle(Cur, p)))

\* an interval timer of the player is running, and its media is not silence
Running(a) == (~slots[a].paused \/ slots[a].leaked) /\ slots[a].src # SILENCE

TimeUpdate ==
  \E a \in DOMAIN slots, d \in Delays : Running(a) /\ Event(pollTime(Advance(d), a))

\* audioContext.onstatechange, state "suspended"
PauseNotify == latest # NULL /\ Event(onPause(Cur, latest))

\* audioContext.onstatechange, state "closed"
ClosedNotify == latest # NULL /\ Event(onClosed(Cur, latest))

\* the calls of the client on a Speaker and on its Sounds
Client == Prepare \/ Play \/ Pause \/ Destroy \/ Flush \/ SetVolume

\* the promises of the platform settling, and its notifications
Platform ==
  \/ PrepareResolve \/ PrepareReject
  \/ PlayResolve \/ PlayReject
  \/ ResumeResolve \/ ResumeReject
  \/ TimeUpdate \/ PauseNotify \/ ClosedNotify

Next ==
  \/ InitializeAudio \/ InitResolve \/ InitReject
  \/ Create \/ Client \/ Platform

Spec == Init /\ [][Next]_vars

\* an initialized Speaker with two Sounds on the same, prepared media, whose
\* client plays and destroys them and whose media does not fail
NextLoaded == Play \/ Destroy \/ PrepareResolve \/ PlayResolve \/ TimeUpdate

SpecLoaded == InitLoaded /\ [][NextLoaded]_vars

TypeOK ==
  /\ active \in DOMAIN slots \cup {NULL}
  /\ prepareWhenReady \in Urls \cup {NoUrl}
  /\ outstandingSounds \subseteq DOMAIN sounds

(* ------------------------- the event sequence -------------------------- *)
\* C1: the events a Sound's subscriber receives form a prefix of
\* play (pause | play)* finish?: no pause before the first play, and no play
\* or pause after a finish.
C1_EventOrder == \A s \in DOMAIN hist : "order" \notin hist[s].bad

\* C2: a Sound's subscriber receives at most one finish, whichever of the
\* sources of finish fire and however they interleave.
C2_OneFinish == \A s \in DOMAIN hist : "refinish" \notin hist[s].bad

\* C3: once destroy() has been called on a Sound, no play, pause, finish or
\* elapse is delivered to its subscribers.
C3_SilentAfterDestroy == \A s \in DOMAIN hist : "afterDestroy" \notin hist[s].bad

\* a destroyed Sound whose start or resume has still to settle
C3_Witness ==
  \E p \in BagToSet(pending) :
    p.kind \in {"play", "resume"} /\ p.sound \in destroyed

\* C5: the registry holds exactly the Sounds create() returned on which
\* destroy() has not been called.
C5_Registry == outstandingSounds = DOMAIN sounds \ destroyed

\* one Sound destroyed while another stays registered
C5_Witness == destroyed # {} /\ outstandingSounds # {}

(* ----------------------- destroy during a start ------------------------ *)
\* the start of the Sound of promise p resolves after destroy() on the Sound,
\* which has seen no event
Stale(p) == p.sound \in destroyed /\ hist[p.sound].phase = "created"

\* the state in which the start of promise p has resolved
Started(p) == playThen(Settle(Cur, p), p.slot, p.sound)

\* the resolution binds nothing and emits nothing
Unbound(p, r) ==
  /\ p.sound \notin r.outstandingSounds
  /\ r.slots[p.slot].sound = slots[p.slot].sound
  /\ r.emitted = <<>>

\* a destroyed Sound that has seen no event is bound to no slot
NeverBound ==
  \A s \in destroyed :
    hist[s].phase = "created" => \A a \in DOMAIN slots : slots[a].sound # s

C6_FailureFinishes ==
  \A s \in failed : hist[s].finish = "error" /\ ~hist[s].played

(* ----------------------------- pre-emption ----------------------------- *)
\* the rotation of assemblePlay that took state r out of the current state,
\* for the Sound B, with the Sound A bound to the active slot
Preempts(r, A, B) ==
  /\ r.preparing = active
  /\ r.slots[active].sound = NULL
  /\ r.slots[active].src = SILENCE
  /\ r.emitted = << <<A, "finish", FALSE>> >>
  /\ \E p \in BagToSet(r.pending) :
       p.kind = "play" /\ p.sound = B /\ p.slot = r.active /\ p.pre = A

\* a subscribed Sound is bound to the active slot
Bound(A) == active # NULL /\ A # NULL /\ slots[active].sound = A /\ A \in handlers

\* C7: play() on B while another Sound A is bound to the active slot and has
\* not entered its fade-out: the rotation unbinds and silences A's slot,
\* which becomes the preparing slot, A receives finish without the error
\* flag, B receives play once its start resolves, and A's finish comes
\* before B's play.
C7_Preemption ==
  /\ \A B \in outstandingSounds :
       LET A == slots[active].sound
       IN  Bound(A) /\ A # B /\ slots[preparing].src = sounds[B].url
             => \A r \in {_playSound(Cur, B)} : Preempts(r, A, B)
  /\ \A q \in Pending("prepare") :
       LET A == slots[active].sound
       IN  q.sound # NULL /\ Bound(A) /\ A # q.sound
             => \A r \in {prepareThen(Settle(Cur, q), q.url, q.sound)} :
                  Preempts(r, A, q.sound)
  /\ \A p \in Pending("play") :
       p.pre # NULL /\ p.pre # p.sound /\ p.sound \in outstandingSounds =>
         \A r \in {Started(p)} :
           /\ hist[p.pre].phase = "finished"
           /\ Len(r.emitted) >= 1
           /\ r.emitted[1] = <<p.sound, "play", FALSE>>
           /\ r.slots[p.slot].sound = p.sound

\* B's start is pending after it pre-empted A, which had played
C7_Witness ==
  \E p \in Pending("play") :
    /\ p.pre # NULL /\ p.pre # p.sound /\ p.sound \in outstandingSounds
    /\ hist[p.pre].played /\ hist[p.pre].finish = "ok"
    /\ slots[preparing].src = SILENCE /\ slots[preparing].sound = NULL

(* ------------------------ ticks of the active slot --------------------- *)
\* the position update reaches the handler's branches for the Sound S
\* bound to the active slot a
Ticks(a, S) ==
  /\ Running(a) /\ a = active
  /\ S # NULL /\ S \in handlers
  /\ sounds[S].url = slots[a].src

\* the update after d more seconds reports a position at or beyond the
\* Sound's end position
AtEnd(d, S) ==
  sounds[S].endPosition # 0 /\ sounds[S].endPosition <= (now + d) * MsPerSecond

\* C8: a position update of the active slot, whose bound Sound S has a
\* fade-out configured, has not reached an end position and is at or beyond
\* fadeOutStart: S's slot takes the fading role, the former fading slot
\* takes the active role with no bound Sound, finish is emitted for S in
\* that step, and S's resource is neither paused nor silenced.
C8_FadeRotation ==
  \A a \in DOMAIN slots, d \in Delays :
    LET S == slots[a].sound
    IN  /\ Ticks(a, S)
        /\ sounds[S].fadeOutSeconds # 0
        /\ ~AtEnd(d, S)
        /\ now + d >= sounds[S].fadeOutStart
        => \A r \in {pollTime(Advance(d), a)} :
             /\ r.fading = active /\ r.active = fading
             /\ r.slots[r.active].sound = NULL
             /\ r.emitted = << <<S, "finish", FALSE>> >>
             /\ r.slots[a].sound = S
             /\ r.slots[a].paused = slots[a].paused
             /\ r.slots[a].src = slots[a].src

\* a Sound finished by the rotation still plays on the fading slot
C8_Witness ==
  /\ fading # NULL /\ active # NULL
  /\ slots[fading].sound # NULL
  /\ hist[slots[fading].sound].finish = "ok"
  /\ ~slots[fading].paused /\ slots[fading].src # SILENCE
  /\ slots[active].sound = NULL

C10_EndPosition ==
  \A a \in DOMAIN slots, d \in Delays :
    LET S == slots[a].sound
    IN  Ticks(a, S) /\ AtEnd(d, S)
        => \A r \in {pollTime(Advance(d), a)} :
             /\ r.slots[a].sound = NULL
             /\ r.slots[a].src = SILENCE
             /\ r.emitted = << <<S, "finish", FALSE>> >>
             /\ r.active = active /\ r.fading = fading /\ r.preparing = preparing

\* a Sound with a fade-out whose end position was reached on the active slot
C10_Witness ==
  /\ active # NULL /\ slots[active].src = SILENCE /\ slots[active].sound = NULL
  /\ \E s \in DOMAIN sounds :
       /\ sounds[s].endPosition # 0 /\ sounds[s].fadeOutEnd # 0
       /\ hist[s].played /\ hist[s].finish = "ok"
       /\ \A a \in DOMAIN slots : slots[a].sound # s

(* ------------------------------- volume -------------------------------- *)

\* a Sound is bound to the fading audio: a crossfade is under way
Crossfading == fading # NULL /\ slots[fading].sound # NULL

\* C11: in every state of the Speaker, for every v in 0..100, getVolume()
\* called after setVolume(v) returns v.
C11_VolumeRoundTrip ==
  \A v \in AllVolumes : \A r \in {setVolume(Cur, v)} : getVolume(r) = v

\* the volume has been set to 0 and a crossfade is under way
C11_Witness == Crossfading /\ getVolume(Cur) = 0

(* ---------------------------- initialization --------------------------- *)
\* initializeAudio() has been called and has not failed: its promise is
\* unresolved, or it has resolved and the three audio groups are in place
Initializing == Pending("init") # {} \/ active # NULL

\* C12: once initializeAudio() has been called, a further call, also one
\* made before the promise of the first has resolved, creates no audio
\* player and changes nothing in the Speaker.
C12_InitIdempotent ==
  Initializing => \A r \in {initializeAudio(Cur)} : r = Cur

\* what create() may be called with: the tracks of the run and every url
\* with empty options
Requests == Tracks \cup {<<u, NoOptions>> : u \in Urls}

\* nothing can deliver an event to Sound s: it has seen none, no audio
\* group is bound to it and no promise has captured it
Untouched(s) ==
  /\ hist[s] = NoHistory
  /\ \A a \in DOMAIN slots : slots[a].sound # s
  /\ \A p \in BagToSet(pending) : p.sound # s /\ p.pre # s

\* this step is play() of Sound s
Plays(s) ==
  /\ s \in outstandingSounds
  /\ calls' = calls + 1
  /\ \E c \in {Collect(_playSound(Cur, s))} : Set(c)

\* without audio: create() records the url, play() does nothing, and no
\* Sound has seen or can be sent an event
NoAudioYet ==
  active = NULL =>
    /\ \A t \in Requests : \A r \in {create(Cur, t[1], t[2])} :
          r.prepareWhenReady = t[1]
    /\ \A s \in DOMAIN sounds : \A r \in {_playSound(Cur, s)} : r = Cur
    /\ \A s \in DOMAIN sounds : Untouched(s)

\* a Sound becomes reachable for events only by a play() made when the
\* audio exists
PlayedWithAudio ==
  \A s \in DOMAIN sounds' :
    (s \in DOMAIN sounds => Untouched(s)) /\ ~Untouched(s)'
      => active # NULL /\ s \in DOMAIN sounds /\ Plays(s)

\* C13: before initializeAudio() has resolved, create(url, {}) records url
\* as prepareWhenReady and play() on the Sound emits nothing and changes
\* nothing; no event reaches the Sound before a play() that is made after
\* initializeAudio() has resolved.
C13_PlayBeforeInit == []NoAudioYet /\ [][PlayedWithAudio]_vars

\* a Sound was created without audio and its url is the one recorded
C13_Witness ==
  /\ active = NULL /\ outstandingSounds # {}
  /\ \E s \in outstandingSounds : prepareWhenReady = sounds[s].url

(* -------------------------------- pause -------------------------------- *)
\* the starts of Sound s that are outstanding on the active audio
StartsOnActive(s) == {p \in Pending("play") : p.sound = s /\ p.slot = active}

\* pause() of the Sound bound to the active audio pauses that audio
PausesBound ==
  \A s \in outstandingSounds :
    active # NULL /\ slots[active].sound = s =>
      \A r \in {_pauseSound(Cur, s)} :
        /\ r.slots[active].paused
        /\ r.fading # NULL /\ r.slots[r.fading].paused

\* pause() of a Sound whose start on the active audio is outstanding leaves
\* the audio as it is and raises pauseAfterPlay; the start resolving then
\* delivers play and pauses the audio
PausesDeferred ==
  \A s \in outstandingSounds :
    active # NULL /\ slots[active].sound # s =>
      \A p \in StartsOnActive(s) :
        \A r \in {_pauseSound(Cur, s)} :
          /\ r.slots[active].paused = slots[active].paused
          /\ r.slots[active].pauseAfterPlay
          /\ r.fading # NULL /\ r.slots[r.fading].paused
          /\ \A q \in {playThen(Settle(r, p), p.slot, s)} :
                /\ q.emitted = <<<<s, "play", FALSE>>>>
                /\ q.slots[p.slot].sound = s
                /\ q.slots[p.slot].paused

\* C14: pause() on the Sound bound to the active audio pauses it; pause()
\* on a Sound whose start is outstanding does not pause but raises the
\* deferred-pause flag of the active audio, and when the start resolves the
\* Sound receives play and the audio is then paused; both pause the fading
\* audio as well.
C14_Pause == PausesBound /\ PausesDeferred

(* ------------------------------ audibility ------------------------------ *)
\* C15: in every reachable state the audio in the preparing role has no
\* bound Sound and is not playing, also when play() is called on a second
\* Sound before the start of the first has resolved.
C15_PreparingQuiet ==
  preparing # NULL => slots[preparing].sound = NULL /\ slots[preparing].paused

\* the state once the clock of the audio context has advanced by d
Later(sp, d) == [sp EXCEPT !.now = @ + d]

\* the positions at which the fading audio may be updated next: up to one
\* second past the end of its media
FadeDelays == 0..(TrackSeconds + 1 - now)

\* the next position update of the fading audio, d seconds from now, either
\* silences it or applies a volume no higher than the one applied now
FadesDown(d) ==
  \A r \in {pollTime(Later(Cur, d), fading)} :
    \/ r.slots[fading].sound = NULL /\ r.slots[fading].src = SILENCE
    \/ FracLeq(r.slots[fading].volume, slots[fading].volume)

\* the master volume gives, at the position of the last update, no more
\* than the volume applied to the fading audio: it was not raised since
NotRaised ==
  \A r \in {_setVolume(Cur, fading, NULL)} :
    FracLeq(r.slots[fading].volume, slots[fading].volume)

FadeOptions ==
  [startPosition : {0, MsPerSecond}, endPosition : {0},
   fadeInSeconds : {1, 2}, fadeOutSeconds : {0, 1}, gain : {0}]

\* an initialized Speaker whose one Sound, created with options o, has been
\* prepared and started and is bound to the active audio
Playing(o) ==
  LET sp == create(Ready, "a", o)
      p == CHOOSE q \in BagToSet(sp.pending) : TRUE
      sp1 == _playSound(prepareThen(Settle(sp, p), p.url, p.sound), 1)
      q == CHOOSE q \in BagToSet(sp1.pending) : TRUE
  IN  Collect(playThen(Settle(sp1, q), q.slot, q.sound))

InitFade == \E o \in FadeOptions : Starts(Playing(o))

\* the client turns the volume and pauses, the position of the audio advances
NextFade == SetVolume \/ Pause \/ TimeUpdate

SpecFade == InitFade /\ [][NextFade]_vars

\* the volume _setVolume applies to audio group a at position t
VolumeAt(a, t) ==
  LET r == _setVolume([Cur EXCEPT !.slots[a].currentTime = t], a, NULL)
  IN  r.slots[a].volume

\* the Sounds bound to an audio group that have a fade-in window
FadingIn ==
  {a \in DOMAIN slots :
     slots[a].sound # NULL /\ sounds[slots[a].sound].fadeInSeconds # 0}

\* C17: for a Sound with a fade-in window, fadeInStart is startPosition /
\* 1000 and fadeInEnd is fadeInStart + fadeInSeconds, the volume computed at
\* fadeInStart is 0 and the volume computed at fadeInEnd is the gain-adjusted
\* master volume.
C17_FadeInEnds ==
  \A a \in FadingIn :
    LET snd == sounds[slots[a].sound]
    IN  /\ snd.fadeInStart * MsPerSecond = snd.startPosition
        /\ snd.fadeInEnd = snd.fadeInStart + snd.fadeInSeconds
        /\ VolumeAt(a, snd.fadeInStart) = <<0, 1>>
        /\ VolumeAt(a, snd.fadeInEnd) = gainAdjustedVolume(snd, vol)

\* a position update at the end of the fade-in window has applied the full
\* master volume
C17_Witness ==
  \E a \in FadingIn :
    /\ a = active /\ vol = 100
    /\ slots[a].currentTime = sounds[slots[a].sound].fadeInEnd
    /\ slots[a].volume = <<1, 1>>

(* --------------------------- create and prepare ------------------------- *)
\* the Sound that the next create() issues
NextId == Cardinality(DOMAIN sounds) + 1

\* r is sp with the repointing of the preparing audio at url begun
Repointing(sp, r, url) ==
  r.pending = sp.pending (+) SetToBag({Promise("prepare", NULL, NULL, url)})

\* r differs from Cur by the new Sound only
OnlyRegistered(r) ==
  /\ r.prepareWhenReady = prepareWhenReady
  /\ r.pending = pending /\ r.slots = slots
  /\ r.active = active /\ r.fading = fading /\ r.preparing = preparing

\* C18 as claimed: create(url, options) registers the new Sound; with the
\* audio in place and the preparing audio on silence it starts repointing
\* the preparing audio at url, and in every other case it records url in
\* prepareWhenReady, overwriting what was there.
C18_CreateRecords ==
  \A t \in Requests : \A r \in {create(Cur, t[1], t[2])} :
    /\ r.outstandingSounds = outstandingSounds \cup {NextId}
    /\ r.sounds[NextId].url = t[1]
    /\ IF active # NULL /\ slots[preparing].src = SILENCE
       THEN Repointing(Cur, r, t[1])
       ELSE r.prepareWhenReady = t[1]

\* C18, amended: create(url, options) registers the new Sound; with the
\* audio in place and the preparing audio on silence it starts repointing
\* the preparing audio at url; without audio it records url in
\* prepareWhenReady, overwriting what was there; with the preparing audio
\* on other media it does nothing more.
C18_Create ==
  \A t \in Requests : \A r \in {create(Cur, t[1], t[2])} :
    /\ r.outstandingSounds = outstandingSounds \cup {NextId}
    /\ r.sounds[NextId].url = t[1]
    /\ IF active = NULL
       THEN r.prepareWhenReady = t[1] /\ r.pending = pending
       ELSE IF slots[preparing].src = SILENCE
       THEN Repointing(Cur, r, t[1])
       ELSE OnlyRegistered(r)

\* a second Sound was created while the preparing audio held the media of
\* the first: nothing is recorded or pending for it
C18_Witness ==
  /\ active # NULL /\ outstandingSounds = {1, 2}
  /\ slots[preparing].src = sounds[1].url
  /\ sounds[2].url # sounds[1].url
  /\ prepareWhenReady = NoUrl /\ pending = EmptyBag

\* the Speaker with its active audio at position t
ActiveAt(t) == [Cur EXCEPT !.slots[active].currentTime = t]

\* the positions of the active audio that prepare() is tried at: where it
\* is, and past the threshold
Positions == {slots[active].currentTime, SafeToPreload + 1}

\* prepare(url) on sp gave r: the pending url is cleared and the preparing
\* audio holds url or is being repointed at it
Prepares(sp, r, url) ==
  /\ r.prepareWhenReady = NoUrl
  /\ r.slots = sp.slots /\ r.preparing = sp.preparing
  /\ IF sp.slots[sp.preparing].src = url
     THEN r.pending = sp.pending
     ELSE Repointing(sp, r, url)

\* prepare(url) on sp gave r: url is pending and nothing else has changed
Defers(sp, r, url) == r = [sp EXCEPT !.prepareWhenReady = url]

FlushEmpties ==
  \A r \in {flush(Cur)} :
    /\ r.outstandingSounds = {}
    /\ r.handlers \cap outstandingSounds = {}
    /\ outstandingSounds \subseteq r.destroyed
    /\ r.emitted = <<>>

\* a Sound whose handlers are detached stays so and its subscriber's record
\* does not change
StaysSilent ==
  \A s \in DOMAIN sounds \ handlers : s \notin handlers' /\ hist'[s] = hist[s]

\* C20: flush() destroys every registered Sound: when it returns no Sound is
\* registered, the handlers of every Sound that was registered are
\* detached, and none of these Sounds receives an event afterwards.
C20_Flush == []FlushEmpties /\ [][StaysSilent]_vars

\* flush() has destroyed two Sounds, one of them still bound to an audio
\* group whose position updates go on
C20_Witness ==
  /\ outstandingSounds = {} /\ destroyed = {1, 2} /\ handlers = {}
  /\ calls = 5
  /\ \E a \in DOMAIN slots : slots[a].sound \in destroyed

(* --------------------------------- reads -------------------------------- *)
\* Sound s is the bound Sound of the active audio
BoundToActive(s) == active # NULL /\ slots[active].sound = s

\* C21: position() and duration() change nothing, raise no error, also
\* before initializeAudio() has resolved, return 0 for a Sound that is not
\* the bound Sound of the active audio and otherwise the position and the
\* duration of the active audio in whole milliseconds.
C21_PureReads ==
  \A s \in DOMAIN sounds :
    \A p \in {_position(Cur, s)} : \A d \in {_duration(Cur, s)} :
      /\ p.state = Cur /\ d.state = Cur
      /\ ~p.threw /\ ~d.threw
      /\ IF BoundToActive(s)
         THEN /\ p.result = slots[active].currentTime * MsPerSecond
              /\ d.result = slots[active].duration * MsPerSecond
         ELSE p.result = 0 /\ d.result = 0

Roles == {active, fading, preparing} \ {NULL}

\* C23: in every reachable state a Sound is the bound Sound of at most one
\* of the audio groups in a role, also after play() twice on one Sound
\* before its first start resolves and after play() on a Sound that has
\* rotated into the fading role.
C23_BoundOnce ==
  \A a, b \in Roles :
    slots[a].sound # NULL /\ slots[a].sound = slots[b].sound => a = b

(* ------------------------- the three audio groups ----------------------- *)
\* the audio groups that hold a role in state r
RolesOf(r) == {r.active, r.fading, r.preparing} \ {NULL}

\* r has the audio groups of the current state in its roles, none new
SameThree(r) == RolesOf(r) = Roles /\ DOMAIN r.slots = DOMAIN slots

\* play() and position updates only exchange roles among the three audio
\* groups
Rotates ==
  /\ Cardinality(Roles) = 3
  /\ \A s \in outstandingSounds : \A r \in {_playSound(Cur, s)} : SameThree(r)
  /\ \A a \in Roles, d \in Delays : \A r \in {pollTime(Advance(d), a)} :
        SameThree(r)

Asked(s) ==
  /\ s \in DOMAIN sounds
  /\ \E p \in BagToSet(pending) :
        p.kind \in {"prepare", "play", "resume"} /\ p.sound = s

\* the subscriber of Sound s has received play or finish, or the Sound has
\* been destroyed
Answered(s) ==
  s \in DOMAIN sounds /\ (hist[s].phase # "created" \/ s \in destroyed)

\* C25: a play() on a registered Sound of an initialized Speaker is answered
\* by a play or a finish event for the Sound, unless the Sound is destroyed
\* first: in the step that leaves the Sound nothing more to wait for, its
\* subscriber has been told play or finish, or the Sound has been destroyed.
C25_PlayAnswered ==
  [][\A s \in SoundIds : Asked(s) /\ ~Asked(s)' => Answered(s)']_vars

(* ------------------------------- envelope ------------------------------- *)
\* what create() is given in the runs on the envelope: with and without
\* fade-in, fade-out, start and end position, gains of -20, 0, 20 and 40 dB
EnvelopeOptions ==
  [startPosition : {0, MsPerSecond}, endPosition : {0, 2 * MsPerSecond},
   fadeInSeconds : {0, 1, 2}, fadeOutSeconds : {0, 1, 3}, gain : Gains]

InitEnvelope == \E o \in EnvelopeOptions : Starts(Playing(o))

SpecEnvelope == InitEnvelope /\ [][NextFade]_vars

\* the positions the envelope is computed at: up to a second past the end
\* of the media
Instants == 0..(TrackSeconds + 1)

\* the volume _setVolume applies to audio group a at position t under the
\* master volume v
Envelope(a, t, v) ==
  LET r == _setVolume([Cur EXCEPT !.vol = v, !.slots[a].currentTime = t], a, NULL)
  IN  r.slots[a].volume

\* the audio groups with a bound Sound
BoundGroups == {a \in DOMAIN slots : slots[a].sound # NULL}

\* C26: for every master volume in 0..100, every gain, every fade windows
\* with start <= end and every position, the volume computed by
\* gainAdjustedVolume and the fade ramps lies in [0, 1].
C26_EnvelopeRange ==
  \A a \in BoundGroups :
    LET snd == sounds[slots[a].sound]
    IN  snd.fadeInStart <= snd.fadeInEnd /\ snd.fadeOutStart <= snd.fadeOutEnd =>
          \A t \in Instants, v \in AllVolumes :
            \A x \in {Envelope(a, t, v)} :
              FracLeq(<<0, 1>>, x) /\ FracLeq(x, <<1, 1>>)

\* a Sound with a gain of 40 dB plays at full master volume: at the
\* position update at MaxTime the product is cut to 1
C26_Witness ==
  \E a \in BoundGroups :
    /\ sounds[slots[a].sound].gain = 40 /\ vol = 100
    /\ sounds[slots[a].sound].startPosition = 0
    /\ slots[a].currentTime = MaxTime /\ slots[a].volume = <<1, 1>>

\* the fraction x - y
FracSub(x, y) == Frac(x[1] * y[2] - y[1] * x[2], x[2] * y[2])

\* the envelope as the cases of C27, for windows [fis, fie] and [fos, foe]
Piecewise(snd, t, base) ==
  LET fadeIn == snd.fadeInStart # snd.fadeInEnd
      fadeOut == snd.fadeOutStart # snd.fadeOutEnd
      up == Frac(t - snd.fadeInStart, snd.fadeInEnd - snd.fadeInStart)
      down == FracSub(<<1, 1>>, Frac(t - snd.fadeOutStart,
                                     snd.fadeOutEnd - snd.fadeOutStart))
  IN  CASE fadeIn /\ t < snd.fadeInStart -> <<0, 1>>
        [] fadeIn /\ snd.fadeInStart <= t /\ t <= snd.fadeInEnd -> FracMul(up, base)
        [] ~(fadeIn /\ t <= snd.fadeInEnd) /\ fadeOut /\ t > snd.fadeOutEnd -> <<0, 1>>
        [] ~(fadeIn /\ t <= snd.fadeInEnd) /\ fadeOut
             /\ snd.fadeOutStart <= t /\ t <= snd.fadeOutEnd -> FracMul(down, base)
        [] OTHER -> base

\* C27: the volume _setVolume computes is 0 before the fade-in window, the
\* linear ramp up inside it, and only then 0 past the end of the fade-out
\* window, the linear ramp down inside it and the gain-adjusted master
\* volume otherwise; a window whose start equals its end is not a window.
C27_EnvelopePiecewise ==
  \A a \in BoundGroups :
    \A t \in Instants, v \in Volumes :
      Envelope(a, t, v) = Piecewise(sounds[slots[a].sound], t,
                                    gainAdjustedVolume(sounds[slots[a].sound], v))

\* a position update inside both windows, the fade-in over [0, 2] and the
\* fade-out over [1, 2], has applied the ramp of the fade-in
C27_Witness ==
  \E a \in BoundGroups :
    LET snd == sounds[slots[a].sound]
    IN  /\ snd.fadeInStart = 0 /\ snd.fadeInEnd = 2
        /\ snd.fadeOutStart = 1 /\ snd.fadeOutEnd = 2
        /\ snd.gain = 0 /\ vol = 100
        /\ slots[a].currentTime = 1 /\ slots[a].volume = <<1, 2>>

(* ----------------------------- setVolume frame -------------------------- *)
\* r differs from sp in nothing but the master volume, the volume applied
\* to the active audio and the events triggered on the Speaker
OnlyVolume(sp, r) ==
  r = [sp EXCEPT !.vol = r.vol,
                 !.slots = [a \in DOMAIN sp.slots |->
                              IF a = sp.active
                              THEN [sp.slots[a] EXCEPT !.volume = r.slots[a].volume]
                              ELSE sp.slots[a]],
                 !.notified = r.notified]

\* C28: setVolume(v) with a value stores v, triggers volume once with v on
\* the Speaker and no event on a Sound, recomputes the volume of the active
\* audio if and only if a Sound is bound to it, and changes no role, no
\* bound Sound, no registry entry and no pending url; setVolume() without a
\* value changes nothing and triggers nothing.
C28_SetVolumeFrame ==
  /\ \A r \in {setVolume(Cur, Undefined)} : r = Cur
  /\ \A v \in Volumes \cup {50} : \A r \in {setVolume(Cur, v)} :
        /\ OnlyVolume(Cur, r)
        /\ r.vol = v
        /\ r.notified = << <<"volume", v>> >>
        /\ IF active # NULL /\ slots[active].sound # NULL
           THEN r.slots[active].volume = Envelope(active, slots[active].currentTime, v)
           ELSE r.slots = slots

\* setVolume(0) has silenced the Sound that is bound to the active audio
\* and playing
C28_Witness ==
  /\ active # NULL /\ slots[active].sound \in outstandingSounds
  /\ ~slots[active].paused
  /\ vol = 0 /\ slots[active].volume = <<0, 1>>

(* --------------------------- a start that fails ------------------------- *)
\* s is the Sound of one of the three audio groups
BoundIn(sp, s) ==
  \E a \in {sp.active, sp.fading, sp.preparing} \ {NULL} : sp.slots[a].sound = s

\* the state after the start that made promise p has been rejected
StartFails(p) == playCatch(Settle(Cur, p), p.sound)

\* r is sp but for what the subscribers have been told
SameSpeaker(sp, r) ==
  r = [sp EXCEPT !.hist = r.hist, !.failed = r.failed, !.emitted = r.emitted]

\* C29 as stated: when the start of a Sound fails, the Sound is told finish
\* with the error, is the Sound of no audio group, the registry and
\* prepareWhenReady are untouched, and the Sound that was active before
\* play() is still bound and still playing.
C29_StartFailureRestores ==
  \A p \in Pending("play") : \A r \in {StartFails(p)} :
    /\ r.emitted = << <<p.sound, "finish", TRUE>> >>
    /\ ~BoundIn(r, p.sound)
    /\ r.sounds = sounds /\ r.outstandingSounds = outstandingSounds
    /\ r.prepareWhenReady = prepareWhenReady
    /\ p.pre # NULL =>
          \E a \in {r.active, r.fading, r.preparing} :
             r.slots[a].sound = p.pre /\ r.slots[a].src = sounds[p.pre].url

\* C29, amended: when the start of a Sound fails, the Sound is told finish
\* with the error if its handlers are still attached, and the Speaker is
\* otherwise as the failure found it: what assemblePlay did before the
\* start (the swap, the silencing and the finish of the Sound it
\* pre-empted) is not undone, and no audio group is bound or unbound.
C29_StartFailureFinishes ==
  \A p \in Pending("play") : \A r \in {StartFails(p)} :
    /\ r.emitted = IF p.sound \in handlers
                   THEN << <<p.sound, "finish", TRUE>> >> ELSE <<>>
    /\ SameSpeaker(Settle(Cur, p), r)
    /\ p.sound \in handlers => r.hist[p.sound].phase = "finished"

\* the start of a Sound that pre-empted another one has failed: the first
\* Sound has played and finished, the second has been told finish with the
\* error, and the active audio holds the second one's media, unbound
C29_Witness ==
  \E s, t \in outstandingSounds :
    /\ s # t
    /\ hist[t].played /\ hist[t].finish = "ok" /\ ~BoundIn(Cur, t)
    /\ ~hist[s].played /\ hist[s].finish = "error" /\ ~BoundIn(Cur, s)
    /\ active # NULL /\ slots[active].sound = NULL
    /\ slots[active].src = sounds[s].url
    /\ Pending("play") = {}

(* ------------------------ silent or starting, unbound ------------------ *)
\* a start of audio group a has been issued and has not settled
Starting(a) == \E p \in Pending("play") : p.slot = a

\* C30: in every reachable state an audio group whose src is SILENCE has no
\* Sound, and an audio group whose start has been issued and has not yet
\* settled has no Sound.
C30_SilentOrStartingUnbound ==
  \A a \in Roles :
    /\ slots[a].src = SILENCE => slots[a].sound = NULL
    /\ Starting(a) => slots[a].sound = NULL

(* ------------------------ finished or destroyed ------------------------- *)
\* Sound s has completed playback (its finish has been delivered) or has
\* been destroyed
Over(s) == s \in destroyed \/ hist[s].finish # "none"

\* C31: no audio group keeps a Sound that has completed playback or has
\* been destroyed: once a Sound is finished or destroyed, the sound of the
\* group that held it is null.
C31_NoFinishedBound ==
  \A a \in Roles : slots[a].sound # NULL => ~Over(slots[a].sound)

(* ------------------------- the media of a bound Sound ------------------ *)
\* C32: whenever an audio group has a Sound, its src is the url of that
\* Sound, also when play() calls overlap while their media are prepared.
C32_BoundHoldsUrl ==
  \A a \in Roles : slots[a].sound # NULL => slots[a].src = sounds[slots[a].sound].url

(* -------------------------- the retry of prepare ------------------------ *)
\* the position updates of the active audio are handled: it has a Sound and
\* holds the media of that Sound
Handles ==
  /\ active # NULL /\ slots[active].sound # NULL
  /\ slots[active].src # SILENCE
  /\ sounds[slots[active].sound].url = slots[active].src

\* the Speaker after the position update of the active audio at position t
Heard(t) == onTimeUpdate(ActiveAt(t), active)

\* in r url is no longer pending: the preparing audio holds it or is being
\* repointed at it
Loads(r, url) ==
  /\ r.prepareWhenReady = NoUrl
  /\ \/ r.slots[r.preparing].src = url
     \/ \E p \in BagToSet(r.pending) : p.kind = "prepare" /\ p.url = url

FadeOutAtCreation ==
  \A o \in EnvelopeOptions : \A url \in Urls : \A snd \in {Sound(o, url)} :
    IF o.fadeOutSeconds # 0 /\ o.endPosition # 0
    THEN /\ snd.fadeOutStart = o.endPosition \div MsPerSecond - o.fadeOutSeconds
         /\ snd.fadeOutEnd = o.endPosition \div MsPerSecond
    ELSE snd.fadeOutStart = 0 /\ snd.fadeOutEnd = 0

\* a start that resolves sets the open fade-out of a registered Sound from
\* the duration of the audio it was started on, and writes nothing else
\* of any Sound
FadeOutAtStart ==
  \A p \in Pending("play") : \A r \in {playThen(Settle(Cur, p), p.slot, p.sound)} :
    LET snd == sounds[p.sound]
        d == slots[p.slot].duration
    IN  r.sounds =
          IF p.sound \in outstandingSounds /\ snd.fadeOutSeconds # 0 /\ snd.fadeOutEnd = 0
          THEN [sounds EXCEPT ![p.sound].fadeOutStart = d - snd.fadeOutSeconds,
                              ![p.sound].fadeOutEnd = d]
          ELSE sounds

\* a step changes a Sound only by closing its open fade-out, while a start
\* of the Sound is outstanding
OnlyFinalizes ==
  \A s \in DOMAIN sounds :
    /\ s \in DOMAIN sounds'
    /\ sounds'[s] # sounds[s] =>
         /\ sounds[s].fadeOutEnd = 0 /\ sounds'[s].fadeOutEnd # 0
         /\ \E p \in Pending("play") : p.sound = s

\* C34: the fade-out of a Sound is fixed once: at creation from the end
\* position when fadeOutSeconds and endPosition are both configured,
\* otherwise at the first start that resolves, from the duration; once
\* fadeOutEnd is not 0 no start changes it, and no other field of a Sound
\* changes after creation.
C34_FadeOutOnce == [](FadeOutAtCreation /\ FadeOutAtStart) /\ [][OnlyFinalizes]_vars

\* a Sound without end position has played, which fixed its fade-out from
\* the duration, and a later start of it is outstanding
C34_Witness ==
  \E s \in outstandingSounds :
    /\ sounds[s].endPosition = 0 /\ hist[s].played
    /\ sounds[s].fadeOutEnd = TrackSeconds
    /\ sounds[s].fadeOutStart = TrackSeconds - sounds[s].fadeOutSeconds
    /\ \E p \in Pending("play") : p.sound = s

(* -------------------------------- resume -------------------------------- *)
\* an initialized Speaker in a crossfade.  The Sound of TrackA has been
\* created, prepared and started and has reached its fade-out, which moved
\* it to the fading audio; a second Sound, without options, has been
\* created, prepared and started and is bound to the active audio.
InitResume ==
  \E created \in {Collect(create(Ready, TrackA[1], TrackA[2]))} :
  \E p \in BagToSet(created.pending) :
  \E prepared \in {Collect(prepareThen(Settle(created, p), p.url, p.sound))} :
  \E started \in {Collect(_playSound(prepared, 1))} :
  \E q \in BagToSet(started.pending) :
  \E playing \in {Collect(playThen(Settle(started, q), q.slot, q.sound))} :
  \E faded \in {Collect(pollTime([playing EXCEPT !.now = playing.sounds[1].fadeOutStart],
                                 playing.active))} :
  \E next \in {Collect(create(faded, "b", NoOptions))} :
  \E p2 \in BagToSet(next.pending) :
  \E prepared2 \in {Collect(prepareThen(Settle(next, p2), p2.url, p2.sound))} :
  \E started2 \in {Collect(_playSound(prepared2, 2))} :
  \E q2 \in BagToSet(started2.pending) :
  \E crossfading \in {Collect(playThen(Settle(started2, q2), q2.slot, q2.sound))} :
    Starts(crossfading)

\* the client pauses and plays, the platform settles and notifies
NextResume ==
  \/ Play \/ Pause \/ Platform
  \/ FadingResumeResolve \/ FadingResumeReject

SpecResume == InitResume /\ [][NextResume]_vars

\* the promises play() on a paused Sound of the active audio leaves behind
Resumed(sp, s) ==
  SetToBag({Promise("resume", NULL, s, NoUrl)})
    (+) (IF sp.slots[sp.fading].sound # NULL
         THEN SetToBag({Promise("fadingResume", NULL, NULL, NoUrl)})
         ELSE EmptyBag)

\* what on(s, ev) hears when ev is triggered once on Sound s
Told(sp, s, ev) == IF s \in sp.handlers THEN << <<s, ev, FALSE>> >> ELSE <<>>

\* C35: play() on the Sound bound to the active audio keeps the three roles
\* and triggers nothing; when the audio is playing nothing changes at all;
\* when it is paused the active audio is resumed, and the fading audio too
\* exactly when it has a Sound, and no Sound or src of an audio changes.
\* When the resume succeeds play is triggered once on the Sound and nothing
\* else changes; when it fails the active audio is left without a Sound and
\* finish is triggered once on the Sound.
C35_ResumeInPlace ==
  /\ \A s \in outstandingSounds :
        (active # NULL /\ slots[active].sound = s) =>
          \A r \in {_playSound(Cur, s)} :
            /\ r.active = active /\ r.fading = fading /\ r.preparing = preparing
            /\ r.emitted = <<>>
            /\ ~slots[active].paused => r = Cur
            /\ slots[active].paused =>
                  /\ ~r.slots[active].paused
                  /\ r.pending = pending (+) Resumed(Cur, s)
                  /\ slots[fading].sound # NULL => ~r.slots[fading].paused
                  /\ slots[fading].sound = NULL =>
                        r.slots[fading].paused = slots[fading].paused
                  /\ \A a \in DOMAIN slots :
                        /\ r.slots[a].sound = slots[a].sound
                        /\ r.slots[a].src = slots[a].src
  /\ \A p \in Pending("resume") :
        /\ \A r \in {resumeThen(Settle(Cur, p), p.sound)} :
              /\ r.emitted = Told(Cur, p.sound, "play")
              /\ SameSpeaker(Settle(Cur, p), r)
        /\ \A r \in {resumeCatch(Settle(Cur, p), p.sound)} :
              /\ r.emitted = Told(Cur, p.sound, "finish")
              /\ r.slots[r.active].sound = NULL
              /\ SameSpeaker([Settle(Cur, p) EXCEPT !.slots[active].sound = NULL], r)

\* a paused Sound of the active audio has been played again during a
\* crossfade: both audios run and both resumes are unsettled
C35_Witness ==
  /\ active # NULL /\ slots[active].sound # NULL /\ slots[fading].sound # NULL
  /\ ~slots[active].paused /\ ~slots[fading].paused
  /\ \E p \in Pending("resume") : p.sound = slots[active].sound
  /\ Pending("fadingResume") # {}

(* ------------------------------- elapse -------------------------------- *)
\* the Sounds for which the handler that produced r triggered elapse
Elapsed(r) == {r.emitted[i][1] : i \in {j \in DOMAIN r.emitted : r.emitted[j][2] = "elapse"}}

\* C36: a position update triggers elapse only on the Sound bound to the
\* active audio, which stays bound to it and has already been told play and
\* has not been told finish; the update triggers nothing else, so it neither
\* finishes that Sound nor moves it to the fading role.
C36_ElapseWhileActive ==
  \A a \in DOMAIN slots : \A r \in {pollTime(Cur, a)} : \A s \in Elapsed(r) :
    /\ a = active /\ slots[a].sound = s
    /\ r.active = active /\ r.fading = fading /\ r.slots[r.active].sound = s
    /\ r.emitted = << <<s, "elapse", FALSE>> >>
    /\ hist[s].played
    /\ hist[s].finish = "none"

(* --------------------- destroyed before it was prepared ---------------- *)
\* the prepares on which the assemblePlay of a Sound no longer in the
\* registry waits
Orphaned == {p \in Pending("prepare") : p.sound # NULL /\ p.sound \notin outstandingSounds}

\* the Sounds on which the handler that produced r triggered finish
Finished(r) == {r.emitted[i][1] : i \in {j \in DOMAIN r.emitted : r.emitted[j][2] = "finish"}}

\* C37: when the prepare that play() of a Sound started resolves after the
\* Sound was destroyed, the active and the fading role stay where they are,
\* and the Sound bound to the active audio stays bound, keeps its media and
\* is not told finish.
C37_OrphanPrepareKeepsActive ==
  \A p \in Orphaned : \A r \in {prepareThen(Settle(Cur, p), p.url, p.sound)} :
    /\ r.active = active /\ r.fading = fading
    /\ slots[active].sound # NULL =>
          /\ r.slots[active].sound = slots[active].sound
          /\ r.slots[active].src = slots[active].src
          /\ slots[active].sound \notin Finished(r)

(* ---------------------------- deferred pause --------------------------- *)
\* the Speaker of Loaded after play() and then pause() on its first Sound:
\* the start is outstanding and the active audio carries pauseAfterPlay.
\* From here on the client calls play() only, never pause(), and the
\* platform settles the prepares and the starts.
InitDeferred ==
  \E started \in {Collect(_playSound(Loaded, 1))} :
  \E flagged \in {Collect(_pauseSound(started, 1))} :
    Starts(flagged)

NextDeferred ==
  \/ Play
  \/ PrepareResolve \/ PlayResolve \/ PlayReject

SpecDeferred == InitDeferred /\ [][NextDeferred]_vars

\* the start that the pause() of InitDeferred was called for: a start of the
\* first Sound while it has been told nothing
Deferred(p) == p.sound = 1 /\ hist[1].phase = "created"

\* C38: pause() was called once, for the first Sound while its start was
\* outstanding.  Every other start of a Sound in the registry, when it
\* resolves, leaves its audio playing and without the deferred-pause flag.
C38_DeferredPauseOnce ==
  \A p \in Pending("play") :
    (p.sound \in outstandingSounds /\ ~Deferred(p)) =>
      \A r \in {playThen(Settle(Cur, p), p.slot, p.sound)} :
        /\ ~r.slots[p.slot].paused
        /\ ~r.slots[p.slot].pauseAfterPlay

(* ------------------------ the url to prepare later --------------------- *)
\* C39: while initializeAudio() is unsettled a url recorded in
\* prepareWhenReady is, after the initialization resolves, either the src of
\* the preparing audio or still recorded in prepareWhenReady.
C39_PendingUrlKept ==
  \A p \in Pending("init") : \A k \in 1..3 :
    prepareWhenReady # NoUrl =>
      \A r \in {initThen(Settle(Cur, p), p.url, k)} :
        \/ r.slots[r.preparing].src = prepareWhenReady
        \/ r.prepareWhenReady = prepareWhenReady

(* ------------------- notifications of the Howler build ----------------- *)
\* the Speaker built on Howler, attachEventHandlers: audioPlayer.on("end",
\* ...); the url of an audio group is its media, the src of this model
onEnd(sp, a) ==
  LET sound == sp.slots[sp.active].sound
      sp1 == [sp EXCEPT !.slots[sp.active].sound = NULL,
                        !.slots[sp.active].src = SILENCE]
  IN  IF sound = NULL
      THEN TypeError(sp1)
      ELSE Returns(trigger(sp1, sound, "finish", FALSE), 0)

\* the Speaker built on Howler, attachEventHandlers: audioPlayer.on("fade",
\* ...), audioPlayer.seek() being the position of the player that fades
onFade(sp, a) ==
  IF sp.slots[sp.active].sound = NULL
  THEN TypeError(sp)
  ELSE LET snd == sp.sounds[sp.slots[sp.active].sound]
       IN  IF snd.fadeOutEnd # 0 /\ sp.slots[a].currentTime >= snd.fadeOutStart
           THEN Returns(startOfFadeOut(sp, sp.active), 0)
           ELSE Returns(sp, 0)

\* the Sound of the active audio of sp is bound to it in r as well and was
\* not told finish on the way
KeepsActive(sp, r) ==
  /\ r.active = sp.active
  /\ r.slots[sp.active].sound = sp.slots[sp.active].sound
  /\ sp.slots[sp.active].sound \notin Finished(r)

\* C40: a closed, end or fade notification of an audio that is not the
\* active one, or that arrives while the active audio has no Sound, throws
\* no TypeError, leaves the Sound of the active audio bound and triggers no
\* finish on it.
C40_OnlyActiveEnds ==
  \A a \in DOMAIN slots :
    (a # active \/ slots[active].sound = NULL) =>
      /\ \A r \in {onClosed(Cur, a)} : KeepsActive(Cur, r)
      /\ \A r \in {onEnd(Cur, a)} : ~r.threw /\ KeepsActive(Cur, r.state)
      /\ \A r \in {onFade(Cur, a)} : ~r.threw /\ KeepsActive(Cur, r.state)
====
